---- MODULE Spec2Model ----
(***************************************************************************)
(* Zero-trust FastAPI demo: the token issuer (services/auth_service) and   *)
(* the policy enforcement point in front of the orders API                 *)
(* (services/orders_api), with the worker threads that serve the sync      *)
(* endpoints in parallel.                                                  *)
(***************************************************************************)
EXTENDS Integers, Sequences, FiniteSets, Bags, TLC

VARIABLES
    now,       \* the wall clock, in whole seconds (time.time())
    TOKEN,     \* the caller's token: what POST /token last handed out, and for what
    ORDERS,    \* orders_api's in-memory order list
    calls,     \* the create_order calls running in worker threads (a bag of frames)
    obs        \* the response on its way back to the caller, if any

vars == <<now, TOKEN, ORDERS, calls, obs>>

(***************************** bounds **************************************)
MaxTime == 1200
MaxOrders == 4

(************************ auth_service constants ***************************)
AUTH_JWT_ISSUER == "demo-auth"
AUTH_JWT_AUDIENCE == "orders-api"
AUTH_JWT_SECRET == "dev-secret-change-me"
AUTH_JWT_ALG == "HS256"
JWT_TTL_SECONDS == 10 * 60

\* An audience the issuer does not put into its tokens.
JWT_AUDIENCE_drift == "orders"

(************************* orders_api constants ****************************)
JWT_ISSUER == "demo-auth"
JWT_AUDIENCE == "orders-api"
JWT_SECRET == "dev-secret-change-me"
JWT_ALG == "HS256"

(*************************** values ****************************************)
Range(s) == {s[i] : i \in 1..Len(s)}

\* A request header: absent (Python None) or present with a string value.
NoHeader == [present |-> FALSE, value |-> ""]
H(v) == [present |-> TRUE, value |-> v]

NoPayload ==
    [iss |-> "", aud |-> "", iat |-> 0, exp |-> 0, sub |-> "", role |-> "",
     scp |-> <<>>, tenant |-> ""]

\* The HMAC of a payload: determined by, and determining, key, algorithm and message.
Sign(payload, key, alg) == [key |-> key, alg |-> alg, msg |-> payload]

NoSig == [key |-> "", alg |-> "", msg |-> NoPayload]

\* What HTTPBearer(auto_error=False) hands to require_jwt: None, or the credentials.
NoCreds == [kind |-> "none", alg |-> "", payload |-> NoPayload, sig |-> NoSig]

\* A bearer string that is not a three-segment JWS.
Garbage == [kind |-> "garbage", alg |-> "", payload |-> NoPayload, sig |-> NoSig]

(**************************** token codec **********************************)
\* jose.jwt.encode(payload, secret, algorithm)
jwt_encode(payload, secret, alg) ==
    [kind |-> "jws", alg |-> alg, payload |-> payload, sig |-> Sign(payload, secret, alg)]

DecodeError(e) == [ok |-> FALSE, error |-> e, payload |-> NoPayload]
Decoded(p) == [ok |-> TRUE, error |-> "", payload |-> p]

\* jwt_decode with the expiry check switched off (options verify_exp = False).
jwt_decode_no_exp(tok, key, algorithms, audience, issuer, t) ==
    IF tok.kind # "jws" THEN DecodeError("JWTError")
    ELSE IF tok.alg \notin algorithms THEN DecodeError("JWTError")
    ELSE IF tok.sig # Sign(tok.payload, key, tok.alg) THEN DecodeError("JWTError")
    ELSE IF tok.payload.aud # audience THEN DecodeError("JWTClaimsError")
    ELSE IF tok.payload.iss # issuer THEN DecodeError("JWTClaimsError")
    ELSE Decoded(tok.payload)

\* jose.jwt.decode(token, key, algorithms, audience, issuer) at clock reading t:
\* structure, algorithm and signature first, then exp, aud, iss.
jwt_decode(tok, key, algorithms, audience, issuer, t) ==
    IF tok.kind # "jws" THEN DecodeError("JWTError")
    ELSE IF tok.alg \notin algorithms THEN DecodeError("JWTError")
    ELSE IF tok.sig # Sign(tok.payload, key, tok.alg) THEN DecodeError("JWTError")
    ELSE IF tok.payload.exp < t THEN DecodeError("ExpiredSignatureError")
    ELSE IF tok.payload.aud # audience THEN DecodeError("JWTClaimsError")
    ELSE IF tok.payload.iss # issuer THEN DecodeError("JWTClaimsError")
    ELSE Decoded(tok.payload)

\* The exception classes "except JWTError" catches.
JWTError == {"JWTError", "JWTClaimsError", "ExpiredSignatureError"}

(***************************** auth_service ********************************)
NoRole == "<absent>"

\* class LoginRequest: role defaults to "reader".
LoginRequest(username, password, role) ==
    [username |-> username, password |-> password,
     role |-> IF role = NoRole THEN "reader" ELSE role]

\* scopes that ignore the role.
scopes_all(role) == <<"orders:read", "orders:write">>

\* token(): scopes = ["orders:read"] if req.role == "reader" else [...]
scopes(role) ==
    IF role = "reader" THEN <<"orders:read">> ELSE <<"orders:read", "orders:write">>

\* token(): the payload dict
TokenPayload(req, t) ==
    [iss |-> AUTH_JWT_ISSUER, aud |-> AUTH_JWT_AUDIENCE, iat |-> t,
     exp |-> t + JWT_TTL_SECONDS, sub |-> req.username, role |-> req.role,
     scp |-> scopes(req.role), tenant |-> "demo-tenant"]

\* token() without the password check.
token_any_password(req, t) ==
    [status |-> 200, detail |-> "",
     access_token |-> jwt_encode(TokenPayload(req, t), AUTH_JWT_SECRET, AUTH_JWT_ALG),
     token_type |-> "bearer", expires_in |-> JWT_TTL_SECONDS]

\* POST /token
token(req, t) ==
    IF req.password # "pass"
    THEN [status |-> 401, detail |-> "invalid credentials", access_token |-> NoCreds,
          token_type |-> "", expires_in |-> 0]
    ELSE [status |-> 200, detail |-> "",
          access_token |-> jwt_encode(TokenPayload(req, t), AUTH_JWT_SECRET, AUTH_JWT_ALG),
          token_type |-> "bearer", expires_in |-> JWT_TTL_SECONDS]

(****************************** orders_api *********************************)
\* A dependency either raises HTTPException(status, detail) or returns a value.
Raise(status, detail) == [raised |-> TRUE, status |-> status, detail |-> detail, user |-> NoPayload]
Return(user) == [raised |-> FALSE, status |-> 200, detail |-> "", user |-> user]

\* require_jwt that passes the codec's error on as the reason.
require_jwt_leaky(creds, t) ==
    IF creds = NoCreds THEN Raise(401, "missing bearer token")
    ELSE LET d == jwt_decode(creds, JWT_SECRET, {JWT_ALG}, JWT_AUDIENCE, JWT_ISSUER, t)
         IN  IF d.ok THEN Return(d.payload) ELSE Raise(401, d.error)

require_jwt(creds, t) ==
    IF creds = NoCreds THEN Raise(401, "missing bearer token")
    ELSE LET d == jwt_decode(creds, JWT_SECRET, {JWT_ALG}, JWT_AUDIENCE, JWT_ISSUER, t)
         IN  IF d.ok THEN Return(d.payload)
             ELSE IF d.error \in JWTError THEN Raise(401, "invalid token")
             ELSE Raise(500, "Internal Server Error")

\* require_scope that never looks at the scopes.
require_scope_unchecked(scope, creds, t) == require_jwt(creds, t)

require_scope(scope, creds, t) ==
    LET user == require_jwt(creds, t)
    IN  IF user.raised THEN user
        ELSE IF scope \notin Range(user.user.scp)
             THEN Raise(403, "missing scope: " \o scope)
             ELSE user

require_role(role, creds, t) ==
    LET user == require_jwt(creds, t)
    IN  IF user.raised THEN user
        ELSE IF user.user.role # role
             THEN Raise(403, "requires role: " \o role)
             ELSE user

\* require_context with symmetric defaults: a missing device header is let through.
require_context_symmetric(x_device_trust, x_risk) ==
    IF x_device_trust.present /\ x_device_trust # H("managed")
    THEN Raise(403, "device not compliant (expected X-Device-Trust: managed)")
    ELSE IF x_risk = H("high")
         THEN Raise(403, "risk too high (expected X-Risk != high)")
         ELSE Return(NoPayload)

require_context(x_device_trust, x_risk) ==
    IF x_device_trust # H("managed")
    THEN Raise(403, "device not compliant (expected X-Device-Trust: managed)")
    ELSE IF x_risk = H("high")
         THEN Raise(403, "risk too high (expected X-Risk != high)")
         ELSE Return(NoPayload)

\* The dependencies solved with the context check first.
Solve_context_first(user, req) ==
    LET ctx == require_context(req.device, req.risk)
    IN  IF ctx.raised THEN ctx ELSE user

\* FastAPI solves an endpoint's dependencies in parameter order; the first
\* HTTPException ends the request and the endpoint body does not run.
Solve(user, req) ==
    IF user.raised THEN user
    ELSE LET ctx == require_context(req.device, req.risk)
         IN  IF ctx.raised THEN ctx ELSE user

list_orders_deps(req, t) == Solve(require_scope("orders:read", req.creds, t), req)
\* create_order declared without its _ctx dependency.
create_order_deps_no_context(req, t) == require_scope("orders:write", req.creds, t)
create_order_deps(req, t) == Solve(require_scope("orders:write", req.creds, t), req)
admin_audit_deps(req, t) == Solve(require_role("admin", req.creds, t), req)

Dependencies(req, t) ==
    CASE req.op = "read" -> list_orders_deps(req, t)
      [] req.op = "write" -> create_order_deps(req, t)
      [] req.op = "audit" -> admin_audit_deps(req, t)

\* f"X{n:03d}"
FormatId(n) ==
    "X" \o (IF n < 10 THEN "00" ELSE IF n < 100 THEN "0" ELSE "") \o ToString(n)

(****************************** inputs *************************************)
Usernames == {"ola", "eve"}
Passwords == {"pass", "wrong"}
Roles == {"reader", "admin", NoRole}
Ops == {"read", "write", "audit"}
DeviceValues == {NoHeader, H(""), H("managed"), H("unmanaged")}
RiskValues == {NoHeader, H("high"), H("low")}

\* Tokens that did not come from POST /token.
ForgedPayload(iss, aud, exp) ==
    [iss |-> iss, aud |-> aud, iat |-> 0, exp |-> exp, sub |-> "eve", role |-> "admin",
     scp |-> <<"orders:read", "orders:write">>, tenant |-> "demo-tenant"]
Never == MaxTime + JWT_TTL_SECONDS
WrongSecret ==
    jwt_encode(ForgedPayload(JWT_ISSUER, JWT_AUDIENCE, JWT_TTL_SECONDS), "other-secret", JWT_ALG)
WrongIssuer == jwt_encode(ForgedPayload("other-auth", JWT_AUDIENCE, Never), JWT_SECRET, JWT_ALG)
WrongAudience == jwt_encode(ForgedPayload(JWT_ISSUER, "other-api", Never), JWT_SECRET, JWT_ALG)
Forged == {Garbage, WrongSecret, WrongIssuer, WrongAudience}

NoGrant == [cred |-> LoginRequest("", "", NoRole), at |-> 0, token |-> NoCreds]
Minted == IF TOKEN = NoGrant THEN {} ELSE {TOKEN.token}
Presentable == {NoCreds} \cup Forged \cup Minted

(****************************** state machine ******************************)
NoResponse == [kind |-> "none"]

\* A running create_order call: where it stands ("body": entered, "append": new_id
\* computed), its parameter user and its local new_id.
Frame(at, u, id) == [pc |-> at, user |-> u, new_id |-> id]
One(f) == SetToBag({f})

Init ==
    /\ now = 0
    /\ TOKEN = NoGrant
    /\ ORDERS = <<[id |-> "A100", total |-> 4250], [id |-> "B200", total |-> 1337]>>
    /\ calls = EmptyBag
    /\ obs = NoResponse

\* Time passes, by one token lifetime: a token is then seen at its issue, at the
\* second it expires and after it. A response is read within the second.
Tick ==
    /\ obs = NoResponse
    /\ now + JWT_TTL_SECONDS <= MaxTime
    /\ now' = now + JWT_TTL_SECONDS
    /\ UNCHANGED <<TOKEN, ORDERS, calls, obs>>

\* The caller reads the response; it sends its next request after that.
Deliver ==
    /\ obs # NoResponse
    /\ obs' = NoResponse
    /\ UNCHANGED <<now, TOKEN, ORDERS, calls>>

\* POST /token with body {username, password, role}.
Issue(username, password, role) ==
    LET req == LoginRequest(username, password, role)
        resp == token(req, now)
    IN  /\ obs = NoResponse
        /\ TOKEN' = IF resp.status = 200
                    THEN [cred |-> req, at |-> now, token |-> resp.access_token]
                    ELSE TOKEN
        /\ obs' = [kind |-> "issue", username |-> username, password |-> password,
                   role |-> role, at |-> now, resp |-> resp]
        /\ UNCHANGED <<now, ORDERS, calls>>

\* A worker thread takes a request to a protected endpoint and solves its
\* dependencies. list_orders and admin_audit then run to their return;
\* create_order is entered and runs in the steps below.
Receive(req) ==
    LET res == Dependencies(req, now)
        enter == ~res.raised /\ req.op = "write"
    IN  /\ obs = NoResponse
        /\ enter => Len(ORDERS) + BagCardinality(calls) < MaxOrders
        /\ calls' = IF enter THEN calls (+) One(Frame("body", res.user, "")) ELSE calls
        /\ obs' = [kind |-> "decision", req |-> req, at |-> now, raised |-> res.raised,
                   status |-> res.status, detail |-> res.detail, user |-> res.user]
        /\ UNCHANGED <<now, TOKEN, ORDERS>>

\* create_order: new_id = f"X{len(ORDERS)+1:03d}"
ReadLen(f) ==
    /\ f.pc = "body"
    /\ calls' = (calls (-) One(f)) (+) One(Frame("append", f.user, FormatId(Len(ORDERS) + 1)))
    /\ UNCHANGED <<now, TOKEN, ORDERS, obs>>

\* create_order: ORDERS.append({"id": new_id, "total": 9.99}) and the return.
AppendOrder(f) ==
    /\ f.pc = "append"
    /\ ORDERS' = Append(ORDERS, [id |-> f.new_id, total |-> 999])
    /\ calls' = calls (-) One(f)
    /\ obs' = [kind |-> "created", ok |-> TRUE, created |-> f.new_id,
               created_by |-> f.user.sub]
    /\ UNCHANGED <<now, TOKEN>>

Requests ==
    [op : Ops, creds : Presentable, device : DeviceValues, risk : RiskValues]

Next ==
    \/ Tick
    \/ Deliver
    \/ \E u \in Usernames, p \in Passwords, r \in Roles : Issue(u, p, r)
    \/ \E req \in Requests : Receive(req)
    \/ \E f \in BagToSet(calls) : ReadLen(f)
    \/ \E f \in BagToSet(calls) : AppendOrder(f)

Spec == Init /\ [][Next]_vars

(***************************************************************************)
(* Vocabulary of the properties, in the terms of the specification.        *)
(***************************************************************************)
IsDecision == obs.kind = "decision"
IsIssue == obs.kind = "issue"

\* The presented token is the one POST /token handed out and has not expired.
Authentic ==
    /\ TOKEN # NoGrant
    /\ obs.req.creds = TOKEN.token
    /\ obs.at <= TOKEN.at + 600

\* The operation's declared scope or role check passes on the token's claims.
Permitted ==
    CASE obs.req.op = "read" -> "orders:read" \in Range(obs.req.creds.payload.scp)
      [] obs.req.op = "write" -> "orders:write" \in Range(obs.req.creds.payload.scp)
      [] obs.req.op = "audit" -> obs.req.creds.payload.role = "admin"

Trusted == obs.req.device = H("managed") /\ obs.req.risk # H("high")

ContextDetails ==
    {"device not compliant (expected X-Device-Trust: managed)",
     "risk too high (expected X-Risk != high)"}

\* The denial code a response surfaces.
Code ==
    IF ~obs.raised /\ obs.status = 200 THEN "Allowed"
    ELSE IF obs.status = 401 THEN "Unauthenticated"
    ELSE IF obs.status = 403 /\ obs.detail = "missing scope: orders:read" THEN "InsufficientScope"
    ELSE IF obs.status = 403 /\ obs.detail = "missing scope: orders:write" THEN "InsufficientScope"
    ELSE IF obs.status = 403 /\ obs.detail = "requires role: admin" THEN "InsufficientRole"
    ELSE IF obs.status = 403 /\ obs.detail \in ContextDetails THEN "UntrustedContext"
    ELSE "Other"

\* C1: every request to a protected operation surfaces the code of the first
\* failing predicate in the order Authentication, Scope or Role, Contextual
\* Trust, whatever the later predicates would say; it is Allowed when none fails.
C1_FirstFailureDecides ==
    IsDecision =>
        Code = IF ~Authentic THEN "Unauthenticated"
               ELSE IF ~Permitted
                    THEN (IF obs.req.op = "audit" THEN "InsufficientRole" ELSE "InsufficientScope")
               ELSE IF ~Trusted THEN "UntrustedContext"
               ELSE "Allowed"

\* A valid token lacking the required scope, sent with risk=high: two predicates fail.
C1_Witness ==
    /\ IsDecision
    /\ Authentic /\ ~Permitted /\ ~Trusted
    /\ obs.req.risk = H("high")
    /\ Code = "InsufficientScope"

AllowedWrite ==
    /\ IsDecision
    /\ obs.req.op = "write"
    /\ Code = "Allowed"
    /\ Authentic /\ Permitted /\ Trusted

\* C2: a denied request never runs the protected operation. The order list
\* changes only by one append of a create_order call, a create_order call is
\* entered only by a write request that ended Allowed, and a step that answers
\* a request with a denial leaves the list and the running calls as they were.
C2_DeniedNeverExecutes ==
    [][ /\ ORDERS' # ORDERS =>
             \E f \in BagToSet(calls) :
                 /\ f.pc = "append"
                 /\ ORDERS' = Append(ORDERS, [id |-> f.new_id, total |-> 999])
                 /\ calls' = calls (-) One(f)
        /\ BagCardinality(calls') > BagCardinality(calls) => AllowedWrite'
        /\ (obs' # obs /\ IsDecision' /\ Code' # "Allowed") =>
             (ORDERS' = ORDERS /\ calls' = calls)
      ]_vars

\* A write was denied for its context after an earlier write had been executed.
C2_Witness ==
    /\ Len(ORDERS) > 2
    /\ IsDecision
    /\ obs.req.op = "write"
    /\ Code = "UntrustedContext"

\* C3: a token whose expires-at (issued-at + 600 s) has passed is answered
\* Unauthenticated (401) whether or not its signature is valid, a request is
\* authenticated only while the clock has not passed expires-at, and the clock
\* never goes back, so a token once rejected for expiry stays rejected.
C3_ExpiredRejected ==
    /\ [](TOKEN # NoGrant =>
            /\ TOKEN.token.payload.iat = TOKEN.at
            /\ TOKEN.token.payload.exp = TOKEN.at + 600)
    /\ []((IsDecision /\ obs.req.creds.kind = "jws") =>
            /\ obs.req.creds.payload.exp < obs.at => Code = "Unauthenticated"
            /\ Code # "Unauthenticated" => obs.at <= obs.req.creds.payload.exp)
    /\ [][now' >= now]_vars

\* The issuer's own token, correctly signed, presented after its expires-at.
C3_Witness ==
    /\ IsDecision
    /\ TOKEN # NoGrant
    /\ obs.req.creds = TOKEN.token
    /\ obs.at > TOKEN.token.payload.exp
    /\ obs.status = 401

\* C4: every presented token that fails verification, for whichever reason
\* (malformed, signed with another secret, wrong issuer, wrong audience,
\* expired), gets one and the same response: 401 with the reason "invalid token".
C4_OneUnauthorizedResponse ==
    (IsDecision /\ obs.req.creds # NoCreds /\ ~Authentic) =>
        (obs.raised /\ obs.status = 401 /\ obs.detail = "invalid token")

\* A correctly signed token of another issuer was refused.
C4_Witness ==
    /\ IsDecision
    /\ obs.req.creds = WrongIssuer
    /\ obs.status = 401

\* C5: once authentication and the scope or role check have passed, the request
\* is allowed exactly when device-trust is the literal "managed" and risk is not
\* the literal "high", and is otherwise UntrustedContext (403), whatever the
\* token, role and scopes.
C5_ContextualTrust ==
    (IsDecision /\ Authentic /\ Permitted) =>
        /\ Code = "Allowed" <=>
             (obs.req.device.present /\ obs.req.device.value = "managed"
                /\ ~(obs.req.risk.present /\ obs.req.risk.value = "high"))
        /\ Code # "Allowed" => (Code = "UntrustedContext" /\ obs.status = 403)

\* An empty device-trust header with no risk header is denied.
C5_Witness ==
    /\ IsDecision /\ Authentic /\ Permitted
    /\ obs.req.device = H("")
    /\ obs.req.risk = NoHeader
    /\ Code = "UntrustedContext"

\* C6: the token POST /token returned for a valid credential, presented before
\* it expires, verifies, and the claims the enforcement point hands to the
\* operation are the subject, role, scopes, issuer, audience and tenant encoded.
C6_RoundTrip ==
    (IsDecision /\ Authentic) =>
        /\ Code # "Unauthenticated"
        /\ Code = "Allowed" =>
             /\ obs.user.sub = TOKEN.cred.username
             /\ obs.user.role = TOKEN.cred.role
             /\ obs.user.scp = IF TOKEN.cred.role = "reader"
                               THEN <<"orders:read">>
                               ELSE <<"orders:read", "orders:write">>
             /\ obs.user.iss = "demo-auth"
             /\ obs.user.aud = "orders-api"
             /\ obs.user.tenant = "demo-tenant"

\* An admin's token read back at the very second it expires.
C6_Witness ==
    /\ IsDecision /\ Authentic
    /\ Code = "Allowed"
    /\ obs.at = TOKEN.token.payload.exp
    /\ obs.user.role = "admin"
    /\ obs.user.sub = "ola"

\* C7: the scopes of every issued token are those of the requested role alone:
\* reader carries exactly {orders:read}, admin exactly {orders:read, orders:write}.
C7_ScopesFromRole ==
    /\ TOKEN # NoGrant =>
         /\ TOKEN.cred.role \in {"reader", "admin"}
         /\ TOKEN.cred.role = "reader" => Range(TOKEN.token.payload.scp) = {"orders:read"}
         /\ TOKEN.cred.role = "admin" =>
              Range(TOKEN.token.payload.scp) = {"orders:read", "orders:write"}
    /\ (IsIssue /\ obs.resp.status = 200) =>
         Range(obs.resp.access_token.payload.scp) =
             IF obs.role = "admin" THEN {"orders:read", "orders:write"} ELSE {"orders:read"}

\* A reader's token issued later than another user's token had been.
C7_Witness ==
    /\ IsIssue
    /\ obs.resp.status = 200
    /\ obs.role = "reader"
    /\ obs.username = "eve"
    /\ obs.at > 0

\* C8: POST /token succeeds iff the password is "pass"; otherwise it answers 401
\* "invalid credentials" with no token, for every username and role; a token
\* issued carries the username verbatim as its subject.
C8_PasswordDecides ==
    IsIssue =>
        /\ obs.resp.status = 200 <=> obs.password = "pass"
        /\ obs.password # "pass" =>
             /\ obs.resp.status = 401
             /\ obs.resp.detail = "invalid credentials"
             /\ obs.resp.access_token = NoCreds
        /\ obs.password = "pass" =>
             /\ obs.resp.access_token.kind = "jws"
             /\ obs.resp.access_token.payload.sub = obs.username
             /\ TOKEN.token = obs.resp.access_token

\* A wrong password with role admin, after a token had been issued.
C8_Witness ==
    /\ IsIssue
    /\ obs.password = "wrong"
    /\ obs.role = "admin"
    /\ obs.resp.status = 401
    /\ TOKEN # NoGrant

\* C9: an unexpired token issued for role reader, presented to write-orders, is
\* always InsufficientScope (403) whatever the username and the headers; and a
\* write request is allowed, and create_order runs, only for an admin's token.
C9_ReaderCannotWrite ==
    /\ (IsDecision /\ Authentic /\ obs.req.op = "write" /\ TOKEN.cred.role = "reader") =>
         (Code = "InsufficientScope" /\ obs.status = 403)
    /\ (IsDecision /\ obs.req.op = "write" /\ Code = "Allowed") =>
         (TOKEN # NoGrant /\ obs.req.creds = TOKEN.token /\ TOKEN.cred.role = "admin")
    /\ \A f \in BagToSet(calls) : f.user.role = "admin"

\* A reader's write from a managed device with no risk header.
C9_Witness ==
    /\ IsDecision /\ Authentic
    /\ obs.req.op = "write"
    /\ TOKEN.cred.role = "reader"
    /\ obs.req.device = H("managed")
    /\ obs.req.risk = NoHeader
    /\ obs.status = 403

\* C10: every allowed write-orders request adds one order whose id X<n> is
\* distinct from the id of every other order in the list, also when allowed
\* write requests are served in parallel.
C10_OrderIdsDistinct ==
    \A i, j \in 1..Len(ORDERS) : i # j => ORDERS[i].id # ORDERS[j].id

====
